---- MODULE Spec2Model ----
(***************************************************************************)
(* Lean project valuation (lpv.py, processes.py): staged simulation of     *)
(* cashflow paths, the entrepreneur's pivot, the investor's abandonment,   *)
(* and the discounting of the terminal row into an expected NPV.           *)
(*                                                                         *)
(* Numbers.  A float64 value is an exact fraction <<n, d>> in lowest terms *)
(* with d > 0; nan is <<0, 0>>.  Rounding is not modelled.                 *)
(* Arrays.  A vector is a sequence, a matrix a sequence of rows; indices   *)
(* are 1-based here, so row idx of the source is row idx + 1 of the model. *)
(* Randomness.  RandomState(s) is a fixed stream per seed s: rng holds the *)
(* normal variates of each stream that a call has observed so far, and a   *)
(* variate is chosen when it is first observed.                            *)
(***************************************************************************)
EXTENDS Integers, Sequences, FiniteSets, TLC

\* ------------------------------------------------------------- bounds
NumPaths == 2
MaxPeriods == 2
MaxGridLen == 4
CoreGridLen == 3
MaxCalls == 2
MaxAnnuity == 3
MaxStart == 3

\* ------------------------------------------------------------ numbers
nan == <<0, 0>>

isnan(x) == x[2] = 0

RECURSIVE gcd(_, _)
gcd(a, b) == IF b = 0 THEN a ELSE gcd(b, a % b)

abs(n) == IF n < 0 THEN -n ELSE n

Frac(n, d) ==
  IF d = 0 THEN nan
  ELSE LET g == gcd(abs(n), abs(d))
           s == IF d < 0 THEN -1 ELSE 1
       IN  <<(s * n) \div g, (s * d) \div g>>

Zero == Frac(0, 1)
Half == Frac(1, 2)
One == Frac(1, 1)
Two == Frac(2, 1)
Three == Frac(3, 1)

\* reduced crosswise before multiplying: the product of two fractions in lowest
\* terms is then in lowest terms, and the intermediate products stay small
mul(x, y) ==
  IF isnan(x) \/ isnan(y) THEN nan
  ELSE LET g1 == gcd(abs(x[1]), y[2])
           g2 == gcd(abs(y[1]), x[2])
       IN  <<(x[1] \div g1) * (y[1] \div g2), (x[2] \div g2) * (y[2] \div g1)>>

add(x, y) ==
  IF isnan(x) \/ isnan(y) THEN nan
  ELSE LET g == gcd(x[2], y[2])
       IN  Frac(x[1] * (y[2] \div g) + y[1] * (x[2] \div g), (x[2] \div g) * y[2])

neg(x) == IF isnan(x) THEN nan ELSE <<-x[1], x[2]>>

sub(x, y) == add(x, neg(y))

\* x / y for y # 0 (every divisor of the source is a power of 1 + r > 0)
div(x, y) ==
  IF isnan(x) \/ isnan(y) THEN nan
  ELSE mul(x, IF y[1] < 0 THEN <<-y[2], -y[1]>> ELSE <<y[2], y[1]>>)

\* comparisons with nan are False, as in IEEE 754
le(x, y) == ~isnan(x) /\ ~isnan(y) /\ x[1] * y[2] <= y[1] * x[2]

gt(x, y) == ~isnan(x) /\ ~isnan(y) /\ x[1] * y[2] > y[1] * x[2]

RECURSIVE pow(_, _)
pow(x, k) == IF k = 0 THEN One ELSE mul(x, pow(x, k - 1))

\* np.nansum over a sequence: nan entries count as zero
RECURSIVE nansum(_)
nansum(s) ==
  IF s = <<>> THEN Zero
  ELSE add(IF isnan(Head(s)) THEN Zero ELSE Head(s), nansum(Tail(s)))

\* sum of a sequence (nan propagates)
RECURSIVE sum(_)
sum(s) == IF s = <<>> THEN Zero ELSE add(Head(s), sum(Tail(s)))

Range(s) == {s[k] : k \in DOMAIN s}

\* ------------------------------------------------- pv_growing_annuity
\* np.arange(start, start + periods)
period_arr(periods, start) == [m \in 1..periods |-> start + m - 1]

\* 1 / (1 + r) ** period_arr
discount_factors(r, periods, start) ==
  [m \in 1..periods |-> div(One, pow(add(One, r), period_arr(periods, start)[m]))]

\* the exponent of (1 + g) ** (period_arr - 1)
GrowthExponent(periods, start) ==
  [m \in 1..periods |-> period_arr(periods, start)[m] - 1]

growth_factors(g, periods, start) ==
  [m \in 1..periods |-> pow(add(One, g), GrowthExponent(periods, start)[m])]

pv_growing_annuity(payoffs, g, r, periods, start) ==
  LET growth == growth_factors(g, periods, start)
      discount == discount_factors(r, periods, start)
      pv_payments ==
        [j \in DOMAIN payoffs |->
           [m \in 1..periods |-> mul(mul(payoffs[j], growth[m]), discount[m])]]
  IN  [j \in DOMAIN payoffs |-> nansum(pv_payments[j])]

\* ------------------------------------------------------------ arrays
EmptyDict == [k \in {} |-> Zero]

DictSet(d, key, val) ==
  [k \in DOMAIN d \cup {key} |-> IF k = key THEN val ELSE d[k]]

Min(S) == CHOOSE x \in S : \A y \in S : x <= y

Last(s) == s[Len(s)]

\* s[:-1]
ButLast(s) == SubSeq(s, 1, Len(s) - 1)

\* np.vstack(arrays)
RECURSIVE vstack(_)
vstack(arrs) == IF arrs = <<>> THEN <<>> ELSE Head(arrs) \o vstack(Tail(arrs))

\* the scalar cashflow_initial_vals broadcast over the path dimension
broadcast(x, n) == [j \in 1..n |-> x]

\* np.where(t == v)[0]: the indices along axis 0 of the entries equal to v
where(t, v) ==
  IF t.ndim = 1 THEN {k \in DOMAIN t.data : t.data[k] = v}
  ELSE {k \in DOMAIN t.data : v \in Range(t.data[k])}

\* t[a:b+1] in the model's 1-based indices: the slice keeps the dimension
slice(t, a, b) == [ndim |-> t.ndim, data |-> SubSeq(t.data, a, b)]

\* ------------------------------------ GeometricBrownianMotion.simulate
\* dt = np.concatenate((t[0:1], np.diff(t)))
dt(data) == [k \in DOMAIN data |-> IF k = 1 THEN data[1] ELSE sub(data[k], data[k - 1])]

\* the three assertions on the time vector
AssertionFails(t) ==
  \/ t.ndim # 1
  \/ Len(t.data) = 0
  \/ LET d == dt(t.data) IN \E k \in DOMAIN d : ~le(Zero, d[k])

\* the variates of rnd.normal(size=(t.size, n)) that reach the result: entry
\* (k, j) is variate (k - 1) * n + j of the stream, and a variate of a step of
\* length 0 is multiplied by sqrt(0)
Observed(data, n) ==
  LET d == dt(data)
  IN  {(k - 1) * n + j : k \in {m \in DOMAIN d : d[m] # Zero}, j \in 1..n}

\* exp(sigma * z * sqrt(dt) + (mu - sigma**2 / 2) * dt) of one step: 1 over a
\* step of length 0, otherwise a positive factor that grows with the variate z
\* (abstracted to 2 for z = 1 and 1/2 for z = -1)
StepFactor(z, d) == IF d = Zero THEN One ELSE IF z = 1 THEN Two ELSE Half

\* initial_vals * exp(sigma * W + (mu - sigma**2 / 2) * t), W the cumulative
\* sum of the scaled variates: the cumulative product of the step factors
RECURSIVE cumfactor(_, _, _, _, _)
cumfactor(d, n, Z, k, j) ==
  IF k = 0 THEN One
  ELSE mul(cumfactor(d, n, Z, k - 1, j),
           StepFactor(IF d[k] = Zero THEN 0 ELSE Z[(k - 1) * n + j], d[k]))

simulate(data, n, initial_vals, Z) ==
  LET d == dt(data)
  IN  [k \in DOMAIN data |->
         [j \in 1..n |-> mul(initial_vals[j], cumfactor(d, n, Z, k, j))]]

\* ------------------------------------------- _generate_pivot_shocks
PivotDrawsUniform(cols) == [j \in 1..cols |-> Half]

\* draws = np.ones(cols), which overrides rnd.uniform(0, 2, size=cols)
PivotDraws(cols) == [j \in 1..cols |-> One]

\* ((mask * draws) - stage_values).filled(0.0), mask hiding values > threshold
pivot_shocks(stage_values, threshold) ==
  LET draws == PivotDraws(Len(stage_values))
  IN  [j \in DOMAIN stage_values |->
         IF gt(stage_values[j], threshold) THEN Zero
         ELSE sub(mul(stage_values[j], draws[j]), stage_values[j])]

decision_vals(stage_values, threshold) ==
  [j \in DOMAIN stage_values |-> IF gt(stage_values[j], threshold) THEN 1 ELSE 0]

\* the (dec, val, cont) triples stored in pivot_decisions[period]
pivot_records(stage_values, threshold) ==
  LET shocks == pivot_shocks(stage_values, threshold)
      decisions == decision_vals(stage_values, threshold)
  IN  [j \in DOMAIN stage_values |->
         <<decisions[j], stage_values[j], add(stage_values[j], shocks[j])>>]

\* ------------------------------------------------------------- inputs
TimeVals == {Zero, Half, One, Two}
Draws == {-1, 1}
Rates == {Zero, One}
CostVals == {One, Three}
Seeds == {1234}
InvestorConfigs == {<<2>>, <<1, 2>>}

SeqsUpTo(S, n) == UNION {[1..m -> S] : m \in 0..n}

Grids1D(S, n) == {[ndim |-> 1, data |-> s] : s \in SeqsUpTo(S, n)}

\* arrays of shape (1, m), m = 1 or 2
Grids2D == {[ndim |-> 2, data |-> <<s>>] : s \in SeqsUpTo(TimeVals, 2) \ {<<>>}}

\* ------------------------------------------------------------- state
VARIABLES
  self,          \* the LeanProjectValuation object's attributes
  t, periods,    \* the time grid and stage count the caller passes
  unaltered,     \* valuation's flag
  pc,            \* where the call stands; "idle" between calls
  idx_start, idx_end, i, init_vals, arrays,   \* generate_paths's locals
  p_pos,         \* position in investor_decision_periods of the loop
  returned,      \* what generate_paths returned
  npv,           \* what valuation returned
  outcome,       \* how the last call ended
  rng,           \* the observed variates: <<seed, position>> -> variate
  calls,         \* calls made
  n_drawn,       \* normal variates drawn by the current call
  pre,           \* self as the current call found it
  assembled,     \* the stacked matrix as line 175 built it
  results,       \* <<unaltered, npv>> of every completed valuation
  ctor,          \* the constructor's arguments
  pv_in, pv_out  \* argument and result of a direct pv_growing_annuity call

vars == <<self, t, periods, unaltered, pc, idx_start, idx_end, i, init_vals, arrays,
          p_pos, returned, npv, outcome, rng, calls, n_drawn, pre, assembled,
          results, ctor, pv_in, pv_out>>

frame == <<idx_start, idx_end, i, init_vals, arrays, p_pos>>

\* LeanProjectValuation.__init__
NewProject(cashflow_mu, cashflow_initial_vals, cost_initial_vals, risk_free_rate, rand_seed, no_sims, investor) ==
  [ nobs |-> no_sims, seed |-> rand_seed,
    cf_mu |-> cashflow_mu, rfr |-> risk_free_rate,
    cf_inits |-> cashflow_initial_vals, co_inits |-> cost_initial_vals,
    threshold |-> cashflow_initial_vals,
    entrepreneur_decision_periods |-> {1},
    investor_decision_periods |-> investor,
    pivot_vals |-> EmptyDict, pivot_decisions |-> EmptyDict,
    paths |-> <<>>, unaltered_paths |-> <<>>, exercise_decisions |-> <<>> ]

InitWith(project, grid, stage_count) ==
  /\ self = project
  /\ ctor = [cashflow_initial_vals |-> project.cf_inits,
             cost_initial_vals |-> project.co_inits]
  /\ t = grid
  /\ periods = stage_count
  /\ unaltered = FALSE
  /\ pc = "idle"
  /\ idx_start = 0 /\ idx_end = 0 /\ i = 0 /\ init_vals = <<>> /\ arrays = <<>>
  /\ p_pos = 0
  /\ returned = <<>> /\ npv = nan /\ outcome = "none"
  /\ rng = EmptyDict
  /\ calls = 0 /\ n_drawn = 0
  /\ pre = project
  /\ assembled = <<>>
  /\ results = <<>>

\* the decision logic, over the short grids and every parameter choice
Init ==
  \E mu \in Rates, r \in Rates, co \in CostVals, sd \in Seeds, inv \in InvestorConfigs,
     grid \in Grids1D(TimeVals, CoreGridLen), n \in 1..MaxPeriods :
    /\ InitWith(NewProject(mu, One, co, r, sd, NumPaths, inv), grid, n)
    /\ pv_in = <<>>
    /\ pv_out = <<>>

\* ------------------------------------------------------------ actions
StartValsCarried == IF init_vals = <<>> THEN broadcast(self.cf_inits, self.nobs) ELSE init_vals

\* init_vals = self.cf_inits
StartVals == broadcast(self.cf_inits, self.nobs)

\* valuation's call of generate_paths, up to the stage loop: the indices of 0
\* and 1 in the time array
Call ==
  /\ pc = "idle"
  /\ calls < MaxCalls
  /\ calls' = calls + 1
  /\ \E u \in BOOLEAN : unaltered' = u
  /\ pre' = self
  /\ n_drawn' = 0
  /\ returned' = <<>>
  /\ npv' = nan
  /\ IF where(t, Zero) = {} \/ where(t, One) = {}
     THEN /\ outcome' = "IndexError"
          /\ pc' = "idle"
          /\ UNCHANGED frame
     ELSE /\ outcome' = "none"
          /\ pc' = "stage"
          /\ idx_start' = Min(where(t, Zero))
          /\ idx_end' = Min(where(t, One))
          /\ arrays' = <<>>
          /\ init_vals' = StartVals
          /\ i' = 1
          /\ p_pos' = 0
  /\ UNCHANGED <<self, t, periods, rng, assembled, results, ctor, pv_in, pv_out>>

\* the body of one pass of the stage loop, lines 157-172, for the variates Z
stage_pass(project, subinterval, stage, stage_count, initial_vals, stacked, Z) ==
  LET n == project.nobs
      cf_sim == simulate(subinterval.data, n, initial_vals, Z)
      end_vals == Last(cf_sim)
      pivots == stage \in project.entrepreneur_decision_periods
      shocks == pivot_shocks(end_vals, project.threshold)
      \* end_vals += pivot_shocks writes through to cf_sim's last row
      carried == IF pivots THEN [j \in 1..n |-> add(end_vals[j], shocks[j])]
                 ELSE end_vals
      cf_after == [cf_sim EXCEPT ![Len(cf_sim)] = carried]
  IN  [ self |-> IF pivots
                 THEN [project EXCEPT
                         !.pivot_vals = DictSet(@, stage, shocks),
                         !.pivot_decisions =
                            DictSet(@, stage, pivot_records(end_vals, project.threshold))]
                 ELSE project,
        init_vals |-> carried,
        arrays |-> Append(stacked, IF stage < stage_count THEN ButLast(cf_after)
                                   ELSE cf_after) ]

\* one pass of the stage loop: simulate the sub-interval, pivot, append
Stage ==
  /\ pc = "stage"
  /\ IF AssertionFails(slice(t, idx_start, idx_end))
     THEN /\ outcome' = "AssertionError"
          /\ pc' = "idle"
          /\ UNCHANGED <<self, rng, n_drawn, frame>>
     ELSE
       \E fresh \in [{<<self.seed + i, k>> :
                        k \in Observed(slice(t, idx_start, idx_end).data, self.nobs)}
                     \ DOMAIN rng -> Draws] :
         /\ rng' = fresh @@ rng
         /\ \E pass \in
              {stage_pass(self, slice(t, idx_start, idx_end), i, periods, init_vals, arrays,
                          [k \in Observed(slice(t, idx_start, idx_end).data, self.nobs)
                             |-> (fresh @@ rng)[<<self.seed + i, k>>]])} :
              /\ self' = pass.self
              /\ init_vals' = pass.init_vals
              /\ arrays' = pass.arrays
         /\ n_drawn' = n_drawn + Len(slice(t, idx_start, idx_end).data) * self.nobs
         /\ i' = i + 1
         /\ pc' = IF i < periods THEN "stage" ELSE "store"
         /\ outcome' = outcome
         /\ UNCHANGED <<idx_start, idx_end, p_pos>>
  /\ UNCHANGED <<t, periods, unaltered, returned, npv, calls, pre, assembled, results,
                 ctor, pv_in, pv_out>>

\* lines 175-177: stack the stages, keep the live matrix and its copy
StorePaths ==
  /\ pc = "store"
  /\ \E simulated_paths \in {vstack(arrays)} :
       /\ self' = [self EXCEPT !.paths = simulated_paths,
                               !.unaltered_paths = simulated_paths]
       /\ assembled' = simulated_paths
  /\ p_pos' = 1
  /\ pc' = IF self.investor_decision_periods = <<>> THEN "return" ELSE "exercise"
  /\ UNCHANGED <<t, periods, unaltered, idx_start, idx_end, i, init_vals, arrays,
                 returned, npv, outcome, rng, calls, n_drawn, pre, results, ctor,
                 pv_in, pv_out>>

SnapshotShared(snapshot, live) == live

\* unaltered_paths after a write to paths: np.copy gave it a buffer of its own
SnapshotAfterWrite(snapshot, live) == snapshot

\* path_valuation <= self.co_inits
is_abandoned(cashflows, project) ==
  LET path_valuation == pv_growing_annuity(cashflows, project.cf_mu, project.rfr, 3, 2)
  IN  [j \in DOMAIN cashflows |-> le(path_valuation[j], project.co_inits)]

\* the (p, d, cf, c) tuples of one decision period
exercise_records(p, cashflows, project) ==
  LET gone == is_abandoned(cashflows, project)
  IN  [j \in DOMAIN cashflows |->
         <<p, IF gone[j] THEN -1 ELSE 1, cashflows[j],
           IF gone[j] THEN Zero ELSE cashflows[j]>>]

\* the object after the loop body for period p and its row idx, lines 121-143
exercise_pass(project, p, idx) ==
  LET cashflows == project.paths[idx]
      gone == is_abandoned(cashflows, project)
      live == [k \in DOMAIN project.paths |->
                 [j \in DOMAIN cashflows |->
                    IF k > idx /\ gone[j] THEN nan ELSE project.paths[k][j]]]
  IN  [project EXCEPT
         !.paths = live,
         !.unaltered_paths = SnapshotAfterWrite(@, live),
         !.exercise_decisions = exercise_records(p, cashflows, project)]

\* idx = np.where(t == p)[0][0], or 0 where that or self.paths[idx,:] raises
exercise_row(grid, p, rows) ==
  LET hits == where(grid, Frac(p, 1))
  IN  IF hits = {} THEN 0 ELSE IF Min(hits) > rows THEN 0 ELSE Min(hits)

\* one pass of _generate_optimal_exercise's loop over the investor's periods
Exercise ==
  /\ pc = "exercise"
  /\ \E idx \in {exercise_row(t, self.investor_decision_periods[p_pos], Len(self.paths))} :
       IF idx = 0
       THEN /\ outcome' = "IndexError"
            /\ pc' = "idle"
            /\ UNCHANGED <<self, p_pos>>
       ELSE /\ self' = exercise_pass(self, self.investor_decision_periods[p_pos], idx)
            /\ p_pos' = p_pos + 1
            /\ pc' = IF p_pos < Len(self.investor_decision_periods) THEN "exercise"
                     ELSE "return"
            /\ outcome' = outcome
  /\ UNCHANGED <<t, periods, unaltered, idx_start, idx_end, i, init_vals, arrays,
                 returned, npv, rng, calls, n_drawn, pre, assembled, results, ctor,
                 pv_in, pv_out>>

\* return self.unaltered_paths
ReturnPaths ==
  /\ pc = "return"
  /\ returned' = self.unaltered_paths
  /\ pc' = "discount"
  /\ UNCHANGED <<self, t, periods, unaltered, frame, npv, outcome, rng, calls, n_drawn,
                 pre, assembled, results, ctor, pv_in, pv_out>>

\* payoffs / (1 + self.rfr) ** 3
ExtraDiscount == 3

\* valuation, lines 189-200, for the matrix it selected
net_present_value(paths, project) ==
  LET annuity == pv_growing_annuity(Last(paths), project.cf_mu, project.rfr, 3, 1)
      payoffs == [j \in DOMAIN annuity |->
                    div(annuity[j], pow(add(One, project.rfr), ExtraDiscount))]
      costs == [j \in DOMAIN payoffs |->
                  IF payoffs[j] # Zero
                  THEN add(project.co_inits,
                           div(project.co_inits, pow(add(One, project.rfr), 2)))
                  ELSE project.co_inits]
      net == [j \in DOMAIN payoffs |-> sub(payoffs[j], costs[j])]
  IN  div(sum(net), Frac(Len(net), 1))

Discount ==
  /\ pc = "discount"
  /\ npv' = net_present_value(IF unaltered THEN self.unaltered_paths ELSE self.paths, self)
  /\ results' = Append(results, <<unaltered, npv'>>)
  /\ outcome' = "returned"
  /\ pc' = "idle"
  /\ UNCHANGED <<self, t, periods, unaltered, frame, returned, rng, calls, n_drawn, pre,
                 assembled, ctor, pv_in, pv_out>>

Next == Call \/ Stage \/ StorePaths \/ Exercise \/ ReturnPaths \/ Discount

Spec == Init /\ [][Next]_vars

\* ------------------------------------------- error handling scenarios
\* the end-to-end scenario's parameters: drift 0.05, risk-free rate 0.05,
\* initial cashflow 1.0, initial cost 1.0, default decision periods
ScenarioRate == Frac(1, 20)

DefaultGrid == [ndim |-> 1, data |-> <<Zero, Half, One, Two>>]

InitGrid ==
  \E sd \in Seeds, grid \in Grids1D(TimeVals, MaxGridLen) \cup Grids2D,
     n \in 1..MaxPeriods :
    /\ InitWith(NewProject(ScenarioRate, One, One, ScenarioRate, sd, NumPaths, <<2>>),
                grid, n)
    /\ pv_in = <<>>
    /\ pv_out = <<>>

SpecGrid == InitGrid /\ [][Next]_vars

\* ------------------------------------- pv_growing_annuity on its own
PayoffVals == {nan, Zero, One, Two, Frac(-1, 1)}

InitPv ==
  /\ InitWith(NewProject(Zero, One, One, Zero, 1234, NumPaths, <<2>>), DefaultGrid, 1)
  /\ pv_in \in [payoffs : SeqsUpTo(PayoffVals, NumPaths) \ {<<>>},
                g : Rates, r : Rates, periods : 1..MaxAnnuity, start : 1..MaxStart]
  /\ pv_out = <<>>

ApplyPv ==
  /\ pv_in # <<>>
  /\ pv_out = <<>>
  /\ pv_out' = pv_growing_annuity(pv_in.payoffs, pv_in.g, pv_in.r, pv_in.periods,
                                  pv_in.start)
  /\ UNCHANGED <<self, t, periods, unaltered, pc, frame, returned, npv, outcome, rng,
                 calls, n_drawn, pre, assembled, results, ctor, pv_in>>

SpecPv == InitPv /\ [][ApplyPv]_vars

\* ------------------------------------------------------------- claims
Ended == pc = "idle" /\ calls > 0

\* the exercise loop of the current call has finished
Exercised == pc \in {"return", "discount"} \/ (Ended /\ outcome = "returned")

NonDecreasing(data) == \A k \in 2..Len(data) : le(data[k - 1], data[k])

\* not one-dimensional, empty, or decreasing somewhere
Malformed(grid) == grid.ndim # 1 \/ Len(grid.data) = 0 \/ ~NonDecreasing(grid.data)

\* 0, 1 and the investor's decision periods
Required == {Zero, One} \cup {Frac(p, 1) : p \in Range(self.investor_decision_periods)}

\* the sum over k = 0..n-1 of payoff * (1+g)^k / (1+r)^(start+k), 0 for a sentinel
SpecAnnuity(payoff, g, r, n, start) ==
  IF isnan(payoff) THEN Zero
  ELSE sum([m \in 1..n |->
              div(mul(payoff, pow(add(One, g), m - 1)), pow(add(One, r), start + m - 1))])

\* C1: the matrix generate_paths returns holds no sentinel and is, cell for
\* cell, the stacked matrix as it stood before the exercise decisions; the
\* truncation of paths never changes a cell of unaltered_paths.
C1_ReturnsSnapshot ==
  /\ self.unaltered_paths = assembled
  /\ returned # <<>> =>
       /\ returned = assembled
       /\ \A k \in DOMAIN returned : \A j \in DOMAIN returned[k] : ~isnan(returned[k][j])

\* a call that truncated a path of the live matrix and returned
C1_Witness ==
  /\ returned # <<>>
  /\ \E k \in DOMAIN self.paths : \E j \in DOMAIN self.paths[k] : isnan(self.paths[k][j])

\* C2: with the default decision periods, the grid [0, 0.5, 1, 2] and
\* periods = 1 the call completes and returns 4 rows, one column per path, the
\* first row equal to the initial cashflow value.
C2_DefaultScenario ==
  ( /\ Ended
    /\ t = DefaultGrid
    /\ periods = 1
    /\ self.entrepreneur_decision_periods = {1}
    /\ self.investor_decision_periods = <<2>> )
  => /\ outcome = "returned"
     /\ Len(returned) = 4
     /\ \A k \in DOMAIN returned : Len(returned[k]) = self.nobs
     /\ returned[1] = broadcast(self.cf_inits, self.nobs)

\* C3: a well-formed grid that lacks 0, 1 or an investor decision period ends
\* the call in a configuration error, with no result returned.
C3_ConfigurationError ==
  (Ended /\ ~Malformed(t) /\ \E v \in Required : where(t, v) = {})
  => outcome = "ConfigurationError" /\ returned = <<>> /\ npv = nan

\* C4: a malformed grid fails with the validation error before any simulation
\* step: no variate is drawn and nothing is stored in the object.
C4_ValidationFirst ==
  Malformed(t) =>
    /\ n_drawn = 0
    /\ self = pre
    /\ Ended => outcome = "AssertionError"

\* C5: pv_growing_annuity returns, per path, the sum over k = 0..periods-1 of
\* payoff * (1+g)^k / (1+r)^(start+k), whatever start is, and 0 for a sentinel.
C5_AnnuityFormula ==
  pv_out # <<>> =>
    \A j \in DOMAIN pv_out :
      pv_out[j] = SpecAnnuity(pv_in.payoffs[j], pv_in.g, pv_in.r, pv_in.periods,
                              pv_in.start)

\* the valuation as the claim states it: the annuity of the terminal row one period
\* out, discounted by one more period; the second cost only where the payoff is not 0
ClaimedValuation(paths, project) ==
  LET payoff == [j \in DOMAIN Last(paths) |->
                   div(SpecAnnuity(Last(paths)[j], project.cf_mu, project.rfr, 3, 1),
                       pow(add(One, project.rfr), 1))]
      cost == [j \in DOMAIN payoff |->
                 IF payoff[j] # Zero
                 THEN add(project.co_inits,
                          div(project.co_inits, pow(add(One, project.rfr), 2)))
                 ELSE project.co_inits]
  IN  div(sum([j \in DOMAIN payoff |-> sub(payoff[j], cost[j])]),
          Frac(project.nobs, 1))

\* C6: valuation returns the mean over all paths of payoff - cost, the payoff
\* being the terminal row's annuity discounted by exactly one more period.
C6_Valuation ==
  (Ended /\ outcome = "returned")
  => npv = ClaimedValuation(IF unaltered THEN self.unaltered_paths ELSE self.paths, self)

\* C7: two valuations with the same grid, stage count and flag return the same
\* scalar, and the initial cashflow value, the cost and the threshold are what
\* the constructor was given.
C7_Reproducible ==
  /\ \A a \in DOMAIN results : \A b \in DOMAIN results :
       results[a][1] = results[b][1] => results[a][2] = results[b][2]
  /\ self.cf_inits = ctor.cashflow_initial_vals
  /\ self.threshold = ctor.cashflow_initial_vals
  /\ self.co_inits = ctor.cost_initial_vals

\* two completed valuations with the same flag, over a matrix with a truncated path
C7_Witness ==
  /\ Len(results) = 2
  /\ results[1][1] = results[2][1]
  /\ \E k \in DOMAIN self.paths : \E j \in DOMAIN self.paths[k] : isnan(self.paths[k][j])

\* C8: pivot_vals[period] is the zero vector of the input's length; each record
\* has flag 1 exactly when the terminal value is above the threshold and a
\* continuation value equal to the terminal value, which the next stage starts from.
C8_PivotNeutral ==
  /\ \A p \in DOMAIN self.pivot_vals :
       /\ self.pivot_vals[p] = [j \in 1..self.nobs |-> Zero]
       /\ Len(self.pivot_decisions[p]) = self.nobs
       /\ \A j \in 1..self.nobs :
            LET rec == self.pivot_decisions[p][j] IN
            /\ rec[1] = (IF gt(rec[2], self.threshold) THEN 1 ELSE 0)
            /\ rec[3] = rec[2]
  /\ (pc = "stage" /\ i > 1 /\ (i - 1) \in self.entrepreneur_decision_periods)
     => init_vals = [j \in 1..self.nobs |-> self.pivot_decisions[i - 1][j][2]]

\* a pivot stage that some path ended above the threshold and another exactly
\* on it, with the next stage about to start from its values
C8_Witness ==
  /\ pc = "stage" /\ i = 2
  /\ \E j \in 1..self.nobs : self.pivot_decisions[1][j][1] = 1
  /\ \E j \in 1..self.nobs : self.pivot_decisions[1][j][2] = self.threshold

\* C9: for every investor period p (its row idx) and path j, once the exercise
\* decisions ran: a present value <= cost puts the sentinel in every row after
\* idx; rows up to idx of every column, and every row of a path whose present
\* value is above its cost, equal the snapshot.
C9_Truncation ==
  Exercised =>
    \A p \in Range(self.investor_decision_periods) : \A j \in 1..self.nobs :
      LET idx == Min(where(t, Frac(p, 1)))
          value == SpecAnnuity(self.paths[idx][j], self.cf_mu, self.rfr, 3, 2)
      IN  /\ le(value, self.co_inits)
             => \A k \in DOMAIN self.paths : k > idx => isnan(self.paths[k][j])
          /\ \A k \in 1..idx : self.paths[k][j] = self.unaltered_paths[k][j]
          /\ gt(value, self.co_inits)
             => \A k \in DOMAIN self.paths :
                  self.paths[k][j] = self.unaltered_paths[k][j]

\* C10: after generate_paths the exercise records hold one well-formed record
\* per (investor period, path) pair, none of an earlier period lost.
C10_RecordsKept ==
  Exercised =>
    /\ \A p \in Range(self.investor_decision_periods) :
         Cardinality({k \in DOMAIN self.exercise_decisions :
                        self.exercise_decisions[k][1] = p}) = self.nobs
    /\ \A k \in DOMAIN self.exercise_decisions :
         LET rec == self.exercise_decisions[k] IN
         \/ rec[2] = -1 /\ rec[4] = Zero
         \/ rec[2] = 1 /\ rec[4] = rec[3]

====
